---- MODULE Spec2Model ----
(***************************************************************************)
(* Model of the heat-equation solvers of heat_equation_solver.cpp          *)
(* (HeatEquationSolver1D, HeatEquationSolver2D) and of material.hpp.       *)
(*                                                                         *)
(* Every `double` of the program is an IEEE-754 binary64 value and every   *)
(* arithmetic operation on doubles rounds to nearest, ties to even.  The   *)
(* first part of the module is that arithmetic; the solvers follow.        *)
(* A finite double is a record [s, e, h, l] with value                     *)
(*        (-1)^s * (h * 2^28 + l) * 2^e,                                   *)
(* where either h = l = 0 (a signed zero) or 2^24 <= h < 2^25 and          *)
(* 0 <= l < 2^28 (a 53-bit significand).  The exponent is an unbounded     *)
(* integer: overflow to infinity, NaN and subnormals are outside the       *)
(* model; no configuration explored here leaves the normal range.          *)
(***************************************************************************)
EXTENDS Integers, Sequences, FiniteSets, TLC

\* ------------------------------------------------------------------------
\* binary64 arithmetic
\* ------------------------------------------------------------------------

P14 == 2^14
P24 == 2^24
P25 == 2^25
P27 == 2^27
P28 == 2^28

DZero(s) == [s |-> s, e |-> 0, h |-> 0, l |-> 0]

IsZero(x) == x.h = 0 /\ x.l = 0

\* -1, 0, 1 as |a| is below, equal to, above |b|
CmpMag(a, b) ==
    IF IsZero(a) THEN (IF IsZero(b) THEN 0 ELSE -1)
    ELSE IF IsZero(b) THEN 1
    ELSE IF a.e # b.e THEN (IF a.e < b.e THEN -1 ELSE 1)
    ELSE IF a.h # b.h THEN (IF a.h < b.h THEN -1 ELSE 1)
    ELSE IF a.l # b.l THEN (IF a.l < b.l THEN -1 ELSE 1)
    ELSE 0

\* -1, 0, 1 as a < b, a = b, a > b  (+0 and -0 compare equal)
DCmp(a, b) ==
    IF IsZero(a) /\ IsZero(b) THEN 0
    ELSE IF a.s # b.s /\ ~IsZero(a) /\ ~IsZero(b) THEN (IF a.s = 1 THEN -1 ELSE 1)
    ELSE IF IsZero(a) THEN (IF b.s = 1 THEN 1 ELSE -1)
    ELSE IF IsZero(b) THEN (IF a.s = 1 THEN -1 ELSE 1)
    ELSE IF a.s = 0 THEN CmpMag(a, b) ELSE CmpMag(b, a)

DLt(a, b) == DCmp(a, b) < 0
DLe(a, b) == DCmp(a, b) <= 0
DGe(a, b) == DCmp(a, b) >= 0

DNeg(a) == [a EXCEPT !.s = 1 - a.s]
DAbs(a) == [a EXCEPT !.s = 0]

\* A 56-bit working value is a pair <<H, L>> of 28-bit limbs; its three low
\* bits are the guard, round and sticky bits of the operation.

\* <<H, L>> shifted right by d bits, the bits shifted out OR-ed into bit 0
ShiftRightSticky(H, L, d) ==
    IF d = 0 THEN <<H, L>>
    ELSE IF d < 28 THEN
        LET p  == 2^d
            q  == 2^(28 - d)
            lo == (L \div p) + (H % p) * q
            st == (L % p) # 0
        IN  <<H \div p, IF st /\ lo % 2 = 0 THEN lo + 1 ELSE lo>>
    ELSE IF d < 56 THEN
        LET p  == 2^(d - 28)
            lo == H \div p
            st == L # 0 \/ (H % p) # 0
        IN  <<0, IF st /\ lo % 2 = 0 THEN lo + 1 ELSE lo>>
    ELSE <<0, IF H # 0 \/ L # 0 THEN 1 ELSE 0>>

\* round the normalised 56-bit value <<H, L>> * 2^e (2^27 <= H) to nearest even
RoundPack(s, e, H, L) ==
    LET hm  == H \div 8
        lm  == (L \div 8) + (H % 8) * P25
        grs == L % 8
        up  == grs > 4 \/ (grs = 4 /\ lm % 2 = 1)
    IN  IF ~up THEN [s |-> s, e |-> e + 3, h |-> hm, l |-> lm]
        ELSE IF lm + 1 < P28 THEN [s |-> s, e |-> e + 3, h |-> hm, l |-> lm + 1]
        ELSE IF hm + 1 < P25 THEN [s |-> s, e |-> e + 3, h |-> hm + 1, l |-> 0]
        ELSE [s |-> s, e |-> e + 4, h |-> P24, l |-> 0]

\* shift the non-zero value <<H, L>> * 2^e left until 2^27 <= H, then round
RECURSIVE NormRound(_, _, _, _)
NormRound(s, e, H, L) ==
    IF H >= P27 THEN RoundPack(s, e, H, L)
    ELSE IF H = 0 THEN NormRound(s, e - 28, L, 0)
    ELSE IF H < P14 THEN NormRound(s, e - 14, H * P14 + (L \div P14), (L % P14) * P14)
    ELSE NormRound(s, e - 1, 2 * H + (L \div P27), 2 * (L % P27))

\* the 56-bit value 8 * significand of x
Wide(x) == <<x.h * 8 + (x.l \div P25), (x.l % P25) * 8>>

\* the sum A + B of two 56-bit values, times 2^e, rounded
AddWide(s, e, A, B) ==
    LET lo == A[2] + B[2]
        L  == lo % P28
        H  == A[1] + B[1] + (lo \div P28)
        l1 == (L \div 2) + (H % 2) * P27
    IN  IF H < P28 THEN RoundPack(s, e, H, L)
        ELSE RoundPack(s, e + 1, H \div 2,
                       IF L % 2 = 1 /\ l1 % 2 = 0 THEN l1 + 1 ELSE l1)

\* the difference A - B > 0 of two 56-bit values, times 2^e, rounded
SubWide(s, e, A, B) ==
    LET bw == IF A[2] < B[2] THEN 1 ELSE 0
    IN  NormRound(s, e, A[1] - B[1] - bw, A[2] - B[2] + bw * P28)

\* the 56-bit value of b aligned to the exponent of a
Aligned(a, b) == ShiftRightSticky(Wide(b)[1], Wide(b)[2], a.e - b.e)

\* |a| + |b| with sign s, for non-zero a, b with |a| >= |b|
AddMag(s, a, b) == AddWide(s, a.e - 3, Wide(a), Aligned(a, b))

\* |a| - |b| with sign s, for non-zero a, b with |a| > |b|
SubMag(s, a, b) == SubWide(s, a.e - 3, Wide(a), Aligned(a, b))

\* a + b for non-zero a, b, where c = CmpMag(a, b)
AddOrdered(a, b, c) ==
    IF a.s = b.s THEN (IF c >= 0 THEN AddMag(a.s, a, b) ELSE AddMag(a.s, b, a))
    ELSE IF c = 0 THEN DZero(0)
    ELSE IF c > 0 THEN SubMag(a.s, a, b)
    ELSE SubMag(b.s, b, a)

\* a + b
DAdd(a, b) ==
    IF IsZero(a) THEN (IF IsZero(b) THEN DZero(IF a.s = 1 /\ b.s = 1 THEN 1 ELSE 0) ELSE b)
    ELSE IF IsZero(b) THEN a
    ELSE AddOrdered(a, b, CmpMag(a, b))

\* a - b
DSub(a, b) == DAdd(a, DNeg(b))

\* the four 14-bit limbs of the significand of x, least significant first
Limbs(x) == <<x.l % P14, x.l \div P14, x.h % P14, x.h \div P14>>

\* the seven columns of the schoolbook product of two limb vectors
MulCols(A, B) ==
    << A[1] * B[1],
       A[1] * B[2] + A[2] * B[1],
       A[1] * B[3] + A[2] * B[2] + A[3] * B[1],
       A[1] * B[4] + A[2] * B[3] + A[3] * B[2] + A[4] * B[1],
       A[2] * B[4] + A[3] * B[3] + A[4] * B[2],
       A[3] * B[4] + A[4] * B[3],
       A[4] * B[4] >>

\* carry propagation: the digits base 2^14 of the columns from i on, appended
\* to ds, the last carry being the top digit
RECURSIVE Digits(_, _, _, _)
Digits(cols, i, carry, ds) ==
    IF i > Len(cols) THEN Append(ds, carry)
    ELSE Digits(cols, i + 1, (cols[i] + carry) \div P14,
                Append(ds, (cols[i] + carry) % P14))

\* the product digits D (eight digits, 105 or 106 bits) times 2^e, rounded:
\* the top 56 bits are kept, k = 7 or 8 bits of digit 4 and all below are
\* sticky
MulPack(s, e, D, k) ==
    LET p  == 2^k
        q  == 2^(14 - k)
        st == D[1] # 0 \/ D[2] # 0 \/ D[3] # 0 \/ (D[4] % p) # 0
        lo == (D[4] \div p) + D[5] * q + (D[6] % p) * (q * P14)
        H  == (D[6] \div p) + D[7] * q + D[8] * (q * P14)
    IN  RoundPack(s, e + k, H, IF st /\ lo % 2 = 0 THEN lo + 1 ELSE lo)

MulDigits(s, e, D) == MulPack(s, e, D, IF D[8] >= 2^7 THEN 8 ELSE 7)

\* a * b
DMul(a, b) ==
    IF IsZero(a) \/ IsZero(b) THEN DZero(IF a.s = b.s THEN 0 ELSE 1)
    ELSE MulDigits(IF a.s = b.s THEN 0 ELSE 1, a.e + b.e + 42,
                   Digits(MulCols(Limbs(a), Limbs(b)), 1, 0, <<>>))

\* Long division by the significand M = <<Mh, Ml>>, one digit base 2^14 at a
\* time: for a remainder R below M the digit is q = R * 2^14 \div M and the
\* new remainder is R * 2^14 - q * M.  The digit is first estimated from the
\* 16 leading bits of M and of R (the estimate is q, q - 1 or q - 2) and then
\* corrected; the remainder is computed modulo 2^56, which loses nothing
\* because it is below 3 * M.

\* A - B modulo 2^56, for 56-bit values
Sub56(A, B) ==
    << (A[1] - B[1] - (IF A[2] < B[2] THEN 1 ELSE 0) + P28) % P28,
       (A[2] - B[2] + P28) % P28 >>

\* q * M modulo 2^56, for q < 2^14, given x1 = q * (limb 1 of M) and
\* pl = q * (limb 0 of M) + (low half of x1) * 2^14
MulSmallSum(q, Mh, x1, pl) ==
    << ((x1 \div P14) + q * (Mh % P14) + ((q * (Mh \div P14)) % P14) * P14
         + (pl \div P28)) % P28,
       pl % P28 >>

MulSmallLow(q, Mh, Ml, x1) ==
    MulSmallSum(q, Mh, x1, q * (Ml % P14) + (x1 % P14) * P14)

MulSmall(q, Mh, Ml) == MulSmallLow(q, Mh, Ml, q * (Ml \div P14))

\* the estimated digit q and the remainder it leaves
Estimate(st, Mh, Ml, q) ==
    [r |-> Sub56(<<(st.rl \div P14) + (st.rh % P14) * P14, (st.rl % P14) * P14>>,
                 MulSmall(q, Mh, Ml)),
     q |-> q]

\* one correction: M is taken off the remainder if it fits
Correct(x, Mh, Ml) ==
    IF x.r[1] > Mh \/ (x.r[1] = Mh /\ x.r[2] >= Ml)
    THEN [r |-> Sub56(x.r, <<Mh, Ml>>), q |-> x.q + 1]
    ELSE x

\* the digit x.q is appended to the digits ds
Push(ds, x) == [rh |-> x.r[1], rl |-> x.r[2], q |-> Append(ds, x.q)]

DivDigit(st, Mh, Ml) ==
    Push(st.q,
         Correct(Correct(Estimate(st, Mh, Ml,
                                  ((st.rh \div 2^9) * P14) \div ((Mh \div 2^9) + 1)),
                         Mh, Ml), Mh, Ml))

\* the quotient 2^56 + (the four digits st.q) has 57 bits: the last one and
\* the remainder go into the sticky bit
DivPack(s, e, st) ==
    LET Qh == st.q[1] * P14 + st.q[2]
        Ql == st.q[3] * P14 + st.q[4]
        sy == st.rh # 0 \/ st.rl # 0 \/ Ql % 2 = 1
        lo == (Ql \div 2) + (Qh % 2) * P27
    IN  RoundPack(s, e, P27 + (Qh \div 2), IF sy /\ lo % 2 = 0 THEN lo + 1 ELSE lo)

\* the significand R (1 <= R / M < 2) divided by M: the leading quotient bit
\* is 1, 56 more bits follow in four digits
DivSignificand(s, e, R, Mh, Ml) ==
    DivPack(s, e,
        DivDigit(DivDigit(DivDigit(DivDigit(
            [rh |-> Sub56(R, <<Mh, Ml>>)[1], rl |-> Sub56(R, <<Mh, Ml>>)[2], q |-> <<>>],
            Mh, Ml), Mh, Ml), Mh, Ml), Mh, Ml))

\* a / b for non-zero b
DDiv(a, b) ==
    LET s == IF a.s = b.s THEN 0 ELSE 1
    IN  IF IsZero(a) THEN DZero(s)
        ELSE IF b.h = P24 /\ b.l = 0 THEN [a EXCEPT !.s = s, !.e = a.e - b.e - 52]
        ELSE IF a.h > b.h \/ (a.h = b.h /\ a.l >= b.l)
        THEN DivSignificand(s, a.e - b.e - 55, <<a.h, a.l>>, b.h, b.l)
        \* a significand below b's is doubled
        ELSE DivSignificand(s, a.e - b.e - 56,
                            <<2 * a.h + (a.l \div P27), 2 * (a.l % P27)>>, b.h, b.l)

\* the double of the integer k, |k| < 2^31
IntToD(k) ==
    IF k = 0 THEN DZero(0)
    ELSE LET m == IF k < 0 THEN -k ELSE k
         IN  NormRound(IF k < 0 THEN 1 ELSE 0, 0, m \div P28, m % P28)

\* the double nearest to the decimal literal num / den (den a power of ten)
Lit(num, den) == DDiv(IntToD(num), IntToD(den))

\* ------------------------------------------------------------------------
\* literals of the program (each is the double nearest to the decimal text)
\* ------------------------------------------------------------------------

Dbl(s, e, h, l) == [s |-> s, e |-> e, h |-> h, l |-> l]

D0    == DZero(0)
D1    == Dbl(0, -52, 16777216, 0)                 \* 1.0
D2    == Dbl(0, -51, 16777216, 0)                 \* 2.0
D4    == Dbl(0, -50, 16777216, 0)                 \* 4.0
D5    == Dbl(0, -50, 20971520, 0)                 \* 5.0
D6    == Dbl(0, -50, 25165824, 0)                 \* 6.0
D10   == Dbl(0, -49, 20971520, 0)                 \* 10.0
D0_75 == Dbl(0, -53, 25165824, 0)                 \* 0.75
D100  == Dbl(0, -46, 26214400, 0)                 \* 100.0  (scale)
D1000 == Dbl(0, -43, 32768000, 0)                 \* 1000.0

\* constexpr double KELVIN_OFFSET = 273.15
KELVIN_OFFSET == Dbl(0, -44, 17901158, 107374182)

\* const double tol = 1e-6;  const int max_iter = 100
tol == Dbl(0, -72, 17592186, 11922829)
max_iter == 100

\* the literals above are the correctly rounded decimals
LiteralsExact ==
    /\ D1 = IntToD(1) /\ D2 = IntToD(2) /\ D4 = IntToD(4) /\ D5 = IntToD(5)
    /\ D6 = IntToD(6) /\ D10 = IntToD(10) /\ D100 = IntToD(100)
    /\ D1000 = IntToD(1000) /\ D0_75 = Lit(75, 100)
    /\ KELVIN_OFFSET = Lit(27315, 100) /\ tol = Lit(1, 1000000)

\* ------------------------------------------------------------------------
\* material.hpp
\* ------------------------------------------------------------------------

\* name, lambda, rho, c of the predefined materials (the name of POLYSTYRENE
\* is written without its accent)
COPPER      == [name |-> "Cuivre", lambda |-> Dbl(0, -44, 25493504, 0),
                rho |-> Dbl(0, -39, 18309120, 0), c |-> Dbl(0, -44, 24903680, 0)]
IRON        == [name |-> "Fer", lambda |-> Dbl(0, -46, 21023948, 214748365),
                rho |-> Dbl(0, -40, 32251904, 0), c |-> Dbl(0, -44, 28835840, 0)]
GLASS       == [name |-> "Verre", lambda |-> Dbl(0, -52, 20132659, 53687091),
                rho |-> Dbl(0, -41, 20725760, 0), c |-> Dbl(0, -43, 27525120, 0)]
POLYSTYRENE == [name |-> "Polystyrene", lambda |-> Dbl(0, -56, 26843545, 161061274),
                rho |-> Dbl(0, -42, 17039360, 0), c |-> Dbl(0, -42, 19660800, 0)]

MaterialsExact ==
    /\ COPPER.lambda = IntToD(389) /\ COPPER.rho = IntToD(8940) /\ COPPER.c = IntToD(380)
    /\ IRON.lambda = Lit(802, 10) /\ IRON.rho = IntToD(7874) /\ IRON.c = IntToD(440)
    /\ GLASS.lambda = Lit(12, 10) /\ GLASS.rho = IntToD(2530) /\ GLASS.c = IntToD(840)
    /\ POLYSTYRENE.lambda = Lit(1, 10) /\ POLYSTYRENE.rho = IntToD(1040)
    /\ POLYSTYRENE.c = IntToD(1200)

\* double alpha() const { return lambda / (rho * c); }
alpha(mat) == DDiv(mat.lambda, DMul(mat.rho, mat.c))

\* ------------------------------------------------------------------------
\* HeatEquationSolver1D.  A std::vector of length n is a sequence of length
\* n; the C++ index i is the sequence index i + 1.
\* ------------------------------------------------------------------------

\* std::vector<double>(n, v)
Fill(n, v) == [k \in 1..n |-> v]

\* one entry of F_, for the grid point at coordinate x
source1D(x, L_, f1, f2, scale) ==
    IF DGe(x, DDiv(L_, D10)) /\ DLe(x, DDiv(DMul(D2, L_), D10))
        THEN DMul(f1, scale)
    ELSE IF DGe(x, DDiv(DMul(D5, L_), D10)) /\ DLe(x, DDiv(DMul(D6, L_), D10))
        THEN DMul(f2, scale)
    ELSE D0

\* the loop of init_source over the grid points, for the amplitudes f1, f2
source_loop1D(L_, dx_, n_, f1, f2) ==
    [k \in 1..n_ |-> source1D(DMul(IntToD(k - 1), dx_), L_, f1, f2, D100)]

\* void HeatEquationSolver1D::init_source(double f): the new F_
init_source1D(L_, tmax_, dx_, n_, f) ==
    source_loop1D(L_, dx_, n_, DMul(DMul(tmax_, f), f),
                  DMul(DMul(DMul(D0_75, tmax_), f), f))

\* the members after the constructor, dx_ and u0_kelvin_ being computed
Members1D(mat, L, tmax, n, dx, u0k, f) ==
    [kind |-> "1D", mat_ |-> mat, L_ |-> L, tmax_ |-> tmax, dx_ |-> dx,
     dt_ |-> DDiv(tmax, D1000), u0_kelvin_ |-> u0k, t_ |-> D0, n_ |-> n,
     u_ |-> Fill(n, u0k), F_ |-> init_source1D(L, tmax, dx, n, f)]

\* HeatEquationSolver1D::HeatEquationSolver1D(mat, L, tmax, u0, f, n)
Solver1D(mat, L, tmax, u0, f, n) ==
    Members1D(mat, L, tmax, n, DDiv(L, IntToD(n - 1)), DAdd(u0, KELVIN_OFFSET), f)

\* forward elimination of solve_tridiagonal, rows i .. n-1 (C++ indices);
\* cp and dp hold c_prime[0..i-1] and d_prime[0..i-1]
RECURSIVE Forward(_, _, _, _, _, _, _)
RECURSIVE ForwardRow(_, _, _, _, _, _, _, _)
Forward(a, b, c, d, cp, dp, i) ==
    IF i = Len(b) THEN <<cp, dp>>
    ELSE ForwardRow(a, b, c, d, cp, dp, i, DSub(b[i + 1], DMul(a[i + 1], cp[i])))

\* row i of the forward elimination, for its pivot denom
ForwardRow(a, b, c, d, cp, dp, i, denom) ==
    Forward(a, b, c, d, Append(cp, DDiv(c[i + 1], denom)),
            Append(dp, DDiv(DSub(d[i + 1], DMul(a[i + 1], dp[i])), denom)), i + 1)

\* fault seeded for C12_ThomasExample: the back substitution adds
\* c_prime[i] * x[i + 1] instead of subtracting it
RECURSIVE Backward_Adds(_, _, _, _)
Backward_Adds(cp, dp, xs, i) ==
    IF i < 0 THEN xs
    ELSE Backward_Adds(cp, dp,
                       <<DAdd(dp[i + 1], DMul(cp[i + 1], xs[1]))>> \o xs, i - 1)

\* back substitution of solve_tridiagonal, rows i .. 0; xs holds x[i+1..n-1]
RECURSIVE Backward(_, _, _, _)
Backward(cp, dp, xs, i) ==
    IF i < 0 THEN xs
    ELSE Backward(cp, dp,
                  <<DSub(dp[i + 1], DMul(cp[i + 1], xs[1]))>> \o xs, i - 1)

\* void HeatEquationSolver1D::solve_tridiagonal(a, b, c, d, x): the new x
\* fault seeded for C8_Dirichlet1D: the back substitution starts from
\* d_prime[n-2] instead of d_prime[n-1]
Substitute_OffByOne(fw, n) == Backward(fw[1], fw[2], <<fw[2][n - 1]>>, n - 2)

\* the back substitution from fw = <<c_prime, d_prime>>
Substitute(fw, n) == Backward(fw[1], fw[2], <<fw[2][n]>>, n - 2)

solve_tridiagonal(a, b, c, d) ==
    Substitute(Forward(a, b, c, d, <<DDiv(c[1], b[1])>>, <<DDiv(d[1], b[1])>>, 1),
               Len(b))

\* the rows of the tridiagonal system of step(), for its r and coef: the
\* interior rows, the Neumann row 0, the Dirichlet row n-1; then the solve
\* and the commit of u_ and t_
\* fault seeded for C10_EquilibriumWithinRounding: the Neumann row keeps the
\* interior diagonal 1 + 2r
MainDiagonal_NoNeumann(k, n, r) ==
    IF k = n THEN D1 ELSE DAdd(D1, DMul(D2, r))

\* fault seeded for C25_SolvesImplicitSystem: the last row is assembled as
\* an interior row, without the Dirichlet condition
MainDiagonal_NoDirichlet(k, n, r) ==
    IF k = 1 THEN DAdd(D1, r) ELSE DAdd(D1, DMul(D2, r))

\* fault seeded for C27_DivisorsAtLeastOne: the diagonal of the explicit
\* scheme, 1 - 2r
MainDiagonal_Explicit(k, n, r) ==
    IF k = n THEN D1
    ELSE IF k = 1 THEN DSub(D1, r)
    ELSE DSub(D1, DMul(D2, r))

\* b[k-1] as step() leaves it before the solve: 1 + 2r in the interior,
\* 1 + r on the Neumann row, 1 on the Dirichlet row
MainDiagonal(k, n, r) ==
    IF k = n THEN D1
    ELSE IF k = 1 THEN DAdd(D1, r)
    ELSE DAdd(D1, DMul(D2, r))

Implicit1D(s, n, r, coef) ==
    LET a == [k \in 1..n |-> IF k = n THEN D0 ELSE DNeg(r)]
        b == [k \in 1..n |-> MainDiagonal(k, n, r)]
        c == [k \in 1..n |-> IF k = n THEN D0 ELSE DNeg(r)]
        d == [k \in 1..n |-> IF k = n THEN s.u0_kelvin_
                             ELSE DAdd(s.u_[k], DMul(coef, s.F_[k]))]
    IN  [s EXCEPT !.u_ = solve_tridiagonal(a, b, c, d), !.t_ = DAdd(s.t_, s.dt_)]

\* fault seeded for C19_MaximumNeverFalls: the step uses the source up, F_ is
\* zero after it
Advance1D_SourceOnce(s) ==
    [Implicit1D(s, s.n_, DDiv(DMul(alpha(s.mat_), s.dt_), DMul(s.dx_, s.dx_)),
                DDiv(s.dt_, DMul(s.mat_.rho, s.mat_.c)))
        EXCEPT !.F_ = Fill(s.n_, D0)]

\* the vectors a, b, c, d as step() hands them to solve_tridiagonal
System1D(s, n, r, coef) ==
    [a |-> [k \in 1..n |-> IF k = n THEN D0 ELSE DNeg(r)],
     b |-> [k \in 1..n |-> MainDiagonal(k, n, r)],
     c |-> [k \in 1..n |-> IF k = n THEN D0 ELSE DNeg(r)],
     d |-> [k \in 1..n |-> IF k = n THEN s.u0_kelvin_
                           ELSE DAdd(s.u_[k], DMul(coef, s.F_[k]))]]

\* fault seeded for C28_NeverBelowReferenceBeyondRounding: the source term
\* enters the right-hand side with the opposite sign
Advance1D_SourceSubtracted(s) ==
    Implicit1D(s, s.n_, DDiv(DMul(alpha(s.mat_), s.dt_), DMul(s.dx_, s.dx_)),
               DNeg(DDiv(s.dt_, DMul(s.mat_.rho, s.mat_.c))))

\* the solver after the body of HeatEquationSolver1D::step() past its guard
Advance1D(s) ==
    Implicit1D(s, s.n_, DDiv(DMul(alpha(s.mat_), s.dt_), DMul(s.dx_, s.dx_)),
               DDiv(s.dt_, DMul(s.mat_.rho, s.mat_.c)))

\* fault seeded for C6_ResetRestores: reset() rewinds the time only
Reset1D_KeepsField(s) == [s EXCEPT !.t_ = D0]

\* void HeatEquationSolver1D::reset()
Reset1D(s) == [s EXCEPT !.t_ = D0, !.u_ = Fill(s.n_, s.u0_kelvin_)]

\* fault seeded for C2_FinishedStepIsNoOp: past the horizon step() returns
\* false but still advances the clock
step1D_StillTicks(s) ==
    IF DGe(s.t_, s.tmax_)
    THEN [ret |-> FALSE, s |-> [s EXCEPT !.t_ = DAdd(s.t_, s.dt_)], iters |-> 0]
    ELSE [ret |-> TRUE, s |-> Advance1D(s), iters |-> 0]

\* bool HeatEquationSolver1D::step(): the returned value and the solver after
\* the call (iters: relaxation sweeps, none in 1D)
step1D(s) ==
    IF DGe(s.t_, s.tmax_) THEN [ret |-> FALSE, s |-> s, iters |-> 0]
    ELSE [ret |-> TRUE, s |-> Advance1D(s), iters |-> 0]

\* ------------------------------------------------------------------------
\* HeatEquationSolver2D.  The flat C++ index idx(i, j) is the sequence index
\* idx(i, j, n) + 1.
\* ------------------------------------------------------------------------

\* int idx(int i, int j) const { return j * n_ + i; }
idx(i, j, n) == j * n + i

\* the four tests of init_source for the grid point (x, y)
\* z lies in the band [L/6, 2L/6], resp. [4L/6, 5L/6]
low_band(z, L_) == DGe(z, DDiv(L_, D6)) /\ DLe(z, DDiv(DMul(D2, L_), D6))

high_band(z, L_) == DGe(z, DDiv(DMul(D4, L_), D6)) /\ DLe(z, DDiv(DMul(D5, L_), D6))

in_source(x, y, L_) ==
    \/ low_band(x, L_) /\ low_band(y, L_)
    \/ high_band(x, L_) /\ low_band(y, L_)
    \/ low_band(x, L_) /\ high_band(y, L_)
    \/ high_band(x, L_) /\ high_band(y, L_)

\* the loops of init_source over the grid points, for the amplitude f_val
source_loop2D(L_, dx_, n_, f_val) ==
    [k \in 1..(n_ * n_) |->
        IF in_source(DMul(IntToD((k - 1) % n_), dx_),
                     DMul(IntToD((k - 1) \div n_), dx_), L_)
        THEN DMul(f_val, D100) ELSE D0]

\* void HeatEquationSolver2D::init_source(double f): the new F_
init_source2D(L_, tmax_, dx_, n_, f) ==
    source_loop2D(L_, dx_, n_, DMul(DMul(tmax_, f), f))

\* the members after the constructor, dx_ and u0_kelvin_ being computed
Members2D(mat, L, tmax, n, dx, u0k, f) ==
    [kind |-> "2D", mat_ |-> mat, L_ |-> L, tmax_ |-> tmax, dx_ |-> dx,
     dt_ |-> DDiv(tmax, D1000), u0_kelvin_ |-> u0k, t_ |-> D0, n_ |-> n,
     u_ |-> Fill(n * n, u0k), F_ |-> init_source2D(L, tmax, dx, n, f)]

\* HeatEquationSolver2D::HeatEquationSolver2D(mat, L, tmax, u0, f, n)
Solver2D(mat, L, tmax, u0, f, n) ==
    Members2D(mat, L, tmax, n, DDiv(L, IntToD(n - 1)), DAdd(u0, KELVIN_OFFSET), f)

\* fault seeded for C9_Dirichlet2D: only the edge j = n-1 is held
OnDirichlet_LastRowOnly(i, j, n) == j = n - 1

\* the test `i == n_ - 1 || j == n_ - 1` of the sweep
OnDirichlet(i, j, n) == i = n - 1 \/ j = n - 1

\* std::max(a, b)
DMax(a, b) == IF DLt(a, b) THEN b ELSE a

\* fault seeded for C11_EquilibriumWithinRounding2D: the diagonal 1 + 2r of
\* the 1D scheme
Diagonal2D_From1D(r) == DAdd(D1, DMul(D2, r))

\* the divisor 1.0 + 4.0 * r of the point update
Diagonal2D(r) == DAdd(D1, DMul(D4, r))

\* the store of the new value of grid point k and the update of max_diff;
\* w = [u: u_new, md: max_diff]
Store(w, k, new) ==
    [u |-> [w.u EXCEPT ![k] = new], md |-> DMax(w.md, DAbs(DSub(new, w.u[k])))]

\* fault seeded for C26_SweepUpdate: the right-hand side is taken from the
\* working buffer instead of the committed field
Cell_RhsFromBuffer(s, n, r, src_coef, w, i, j) ==
    IF OnDirichlet(i, j, n) THEN [w EXCEPT !.u[idx(i, j, n) + 1] = s.u0_kelvin_]
    ELSE
    LET u_left  == IF i > 0 THEN w.u[idx(i - 1, j, n) + 1] ELSE w.u[idx(1, j, n) + 1]
        u_right == w.u[idx(i + 1, j, n) + 1]
        u_down  == IF j > 0 THEN w.u[idx(i, j - 1, n) + 1] ELSE w.u[idx(i, 1, n) + 1]
        u_up    == w.u[idx(i, j + 1, n) + 1]
        rhs     == DAdd(w.u[idx(i, j, n) + 1], DMul(src_coef, s.F_[idx(i, j, n) + 1]))
    IN  Store(w, idx(i, j, n) + 1,
              DDiv(DAdd(rhs, DMul(r, DAdd(DAdd(DAdd(u_left, u_right), u_down), u_up))),
                   Diagonal2D(r)))

\* the body of the two inner loops of step() for the grid point (i, j)
Cell(s, n, r, src_coef, w, i, j) ==
    IF OnDirichlet(i, j, n) THEN [w EXCEPT !.u[idx(i, j, n) + 1] = s.u0_kelvin_]
    ELSE
    LET u_left  == IF i > 0 THEN w.u[idx(i - 1, j, n) + 1] ELSE w.u[idx(1, j, n) + 1]
        u_right == w.u[idx(i + 1, j, n) + 1]
        u_down  == IF j > 0 THEN w.u[idx(i, j - 1, n) + 1] ELSE w.u[idx(i, 1, n) + 1]
        u_up    == w.u[idx(i, j + 1, n) + 1]
        rhs     == DAdd(s.u_[idx(i, j, n) + 1], DMul(src_coef, s.F_[idx(i, j, n) + 1]))
    IN  Store(w, idx(i, j, n) + 1,
              DDiv(DAdd(rhs, DMul(r, DAdd(DAdd(DAdd(u_left, u_right), u_down), u_up))),
                   Diagonal2D(r)))

\* the grid points number k0 .. k0 + cnt - 1 of one sweep, in the order of the
\* loops (j outer, i inner), first half then second half
RECURSIVE SweepCells(_, _, _, _, _, _)
RECURSIVE SweepRest(_, _, _, _, _, _)
SweepCells(s, r, src_coef, w, k0, cnt) ==
    IF cnt = 1 THEN Cell(s, s.n_, r, src_coef, w, k0 % s.n_, k0 \div s.n_)
    ELSE SweepRest(s, r, src_coef, SweepCells(s, r, src_coef, w, k0, cnt \div 2),
                   k0 + (cnt \div 2), cnt - (cnt \div 2))

SweepRest(s, r, src_coef, w, k0, cnt) ==
    IF w.md.s = 0 THEN SweepCells(s, r, src_coef, w, k0, cnt) ELSE w

\* fault seeded for C15_SweepsUntilConverged: the test of max_diff against
\* tol is missing, the loop always runs max_iter times
Swept_NeverBreaks(w, iters) == [u |-> w.u, iters |-> iters, done |-> FALSE]

\* the test `if (max_diff < tol) break;` after a sweep that left w
Swept(w, iters) == [u |-> w.u, iters |-> iters, done |-> DLt(w.md, tol)]

\* one iteration of `for (iter ...)`: st = [u: u_new, iters, done]
Sweep(s, r, src_coef, st) ==
    Swept(SweepCells(s, r, src_coef, [u |-> st.u, md |-> D0], 0, s.n_ * s.n_),
          st.iters + 1)

\* at most cnt iterations of the loop, stopping at the break
RECURSIVE Sweeps(_, _, _, _, _)
RECURSIVE SweepsRest(_, _, _, _, _)
Sweeps(s, r, src_coef, st, cnt) ==
    IF cnt = 1 THEN Sweep(s, r, src_coef, st)
    ELSE SweepsRest(s, r, src_coef, Sweeps(s, r, src_coef, st, cnt \div 2),
                    cnt - (cnt \div 2))

SweepsRest(s, r, src_coef, st, cnt) ==
    IF st.done THEN st ELSE Sweeps(s, r, src_coef, st, cnt)

\* the Gauss-Seidel loop of step(): the relaxed u_new and the sweeps made
Relax(s) ==
    Sweeps(s, DDiv(DMul(alpha(s.mat_), s.dt_), DMul(s.dx_, s.dx_)),
           DDiv(s.dt_, DMul(s.mat_.rho, s.mat_.c)),
           [u |-> s.u_, iters |-> 0, done |-> FALSE], max_iter)

\* one full sweep over the grid of solver s, from the buffer u: the new
\* buffer and the sweep's max_diff
SweepOf(s, u) ==
    SweepCells(s, DDiv(DMul(alpha(s.mat_), s.dt_), DMul(s.dx_, s.dx_)),
               DDiv(s.dt_, DMul(s.mat_.rho, s.mat_.c)),
               [u |-> u, md |-> D0], 0, s.n_ * s.n_)

\* the results of k full sweeps made one after the other from the buffer u,
\* with no test in between
RECURSIVE SweepTrace(_, _, _)
SweepTrace(s, u, k) ==
    IF k = 1 THEN <<SweepOf(s, u)>>
    ELSE LET first == SweepTrace(s, u, k \div 2)
         IN  first \o SweepTrace(s, first[Len(first)].u, k - (k \div 2))

\* fault seeded for C14_ExhaustedStepCommits: a relaxation that ends without
\* meeting tol is reported as a failure and nothing is committed
Commit2D_FailsUnconverged(s, st) ==
    IF st.done
    THEN [ret |-> TRUE, s |-> [s EXCEPT !.u_ = st.u, !.t_ = DAdd(s.t_, s.dt_)],
          iters |-> st.iters]
    ELSE [ret |-> FALSE, s |-> s, iters |-> st.iters]

\* the commit `u_ = u_new; t_ += dt_; return true;`
Commit2D(s, st) ==
    [ret |-> TRUE, s |-> [s EXCEPT !.u_ = st.u, !.t_ = DAdd(s.t_, s.dt_)],
     iters |-> st.iters]

\* fault seeded for C3_TrueMeansAdvanced: the value returned after an advance
\* is whether the new time is still short of tmax
step2D_ReportsRemaining(s) ==
    IF DGe(s.t_, s.tmax_) THEN [ret |-> FALSE, s |-> s, iters |-> 0]
    ELSE LET r == Commit2D(s, Relax(s))
         IN  [r EXCEPT !.ret = DLt(r.s.t_, r.s.tmax_)]

\* bool HeatEquationSolver2D::step()
step2D(s) ==
    IF DGe(s.t_, s.tmax_) THEN [ret |-> FALSE, s |-> s, iters |-> 0]
    ELSE Commit2D(s, Relax(s))

\* fault seeded for C7_ResetEqualsFresh: reset() refills the field with the
\* offset alone, 0 degrees Celsius, instead of the initial temperature
Reset2D_ZeroCelsius(s) ==
    [s EXCEPT !.t_ = D0, !.u_ = Fill(s.n_ * s.n_, KELVIN_OFFSET)]

\* fault seeded for C20_SourceIsStatic: reset() refills the source field with
\* zeros as well
Reset2D_ClearsSource(s) ==
    [s EXCEPT !.t_ = D0, !.u_ = Fill(s.n_ * s.n_, s.u0_kelvin_),
              !.F_ = Fill(s.n_ * s.n_, D0)]

\* void HeatEquationSolver2D::reset()
Reset2D(s) == [s EXCEPT !.t_ = D0, !.u_ = Fill(s.n_ * s.n_, s.u0_kelvin_)]

\* ------------------------------------------------------------------------
\* The solvers as a state machine: a driver constructs a solver and then
\* calls step() and reset() on it in any order.
\* ------------------------------------------------------------------------

\* calls of step() explored after a solver has returned false
MaxIdleCalls == 2

\* the configurations explored: <<kind, material, L, tmax, u0, f, n>>
Configs ==
    { <<"1D", COPPER, 1, 1, 0, 0, 5>>,
      <<"1D", IRON, 1, 5, 13, 80, 3>>,
      <<"1D", POLYSTYRENE, 2, 16, 13, 80, 5>>,
      <<"2D", COPPER, 1, 1, 0, 0, 3>>,
      <<"2D", GLASS, 1, 5, 13, 80, 4>>,
      <<"2D", IRON, 2, 16, -5, 80, 4>>,
      <<"2D", POLYSTYRENE, 1, 16, 13, 0, 4>> }

Construct(cfg) ==
    IF cfg[1] = "1D"
    THEN Solver1D(cfg[2], IntToD(cfg[3]), IntToD(cfg[4]), IntToD(cfg[5]), IntToD(cfg[6]), cfg[7])
    ELSE Solver2D(cfg[2], IntToD(cfg[3]), IntToD(cfg[4]), IntToD(cfg[5]), IntToD(cfg[6]), cfg[7])

VARIABLES
    solvers,    \* the solver objects, by instance
    args,       \* the constructor arguments of each solver (a Configs entry)
    fresh,      \* each solver as its constructor left it
    calls,      \* per solver: ok = calls of step() that returned true since
                \* construction or the last reset(), idle = calls that
                \* returned false since then, used = some call of step() has
                \* returned true since construction
    hist,       \* the last operation: op, id; for a step its result ret, its
                \* sweeps iters and the solver before the call, pre; for a
                \* reset the phase it found the solver in, from
    app         \* the SDLApp object that owns the solvers, NoApp where the
                \* solvers are called directly

vars == <<solvers, args, fresh, calls, hist, app>>

\* no SDLApp object has been constructed
NoApp == [pc |-> "none"]

Ids == DOMAIN solvers

Phase(id) ==
    IF DGe(solvers[id].t_, solvers[id].tmax_) THEN "finished"
    ELSE IF hist.op = "reset" /\ hist.id = id THEN "reset"
    ELSE IF calls[id].ok = 0 THEN "fresh"
    ELSE "midrun"

\* the state in which the one solver s has just been constructed from cfg
Constructed(cfg, s) ==
    /\ solvers = <<s>>
    /\ args = <<cfg>>
    /\ fresh = <<s>>
    /\ calls = <<[ok |-> 0, idle |-> 0, used |-> FALSE]>>
    /\ hist = [op |-> "init", id |-> 1, ret |-> TRUE, iters |-> 0,
               pre |-> s, from |-> "none"]

Init == app = NoApp /\ \E cfg \in Configs : Constructed(cfg, Construct(cfg))

\* fault seeded for C17_RunsAsAlone: the time t_ is one variable shared by
\* all solvers (a static member)
Stepped_SharedClock(id, r) ==
    /\ r.ret \/ calls[id].idle < MaxIdleCalls
    /\ solvers' = [k \in DOMAIN solvers |->
                      IF k = id THEN r.s ELSE [solvers[k] EXCEPT !.t_ = r.s.t_]]
    /\ calls' = [calls EXCEPT ![id] =
                    IF r.ret THEN [@ EXCEPT !.ok = @ + 1, !.used = TRUE]
                    ELSE [@ EXCEPT !.idle = @ + 1]]
    /\ hist' = [op |-> "step", id |-> id, ret |-> r.ret, iters |-> r.iters,
                pre |-> solvers[id], from |-> "none"]
    /\ UNCHANGED <<args, fresh, app>>

\* a call of step() on solver id, whose outcome is r
Stepped(id, r) ==
    /\ r.ret \/ calls[id].idle < MaxIdleCalls
    /\ solvers' = [solvers EXCEPT ![id] = r.s]
    /\ calls' = [calls EXCEPT ![id] =
                    IF r.ret THEN [@ EXCEPT !.ok = @ + 1, !.used = TRUE]
                    ELSE [@ EXCEPT !.idle = @ + 1]]
    /\ hist' = [op |-> "step", id |-> id, ret |-> r.ret, iters |-> r.iters,
                pre |-> solvers[id], from |-> "none"]
    /\ UNCHANGED <<args, fresh, app>>

\* a call of reset() on solver id, which leaves it as s
WasReset(id, s) ==
    /\ solvers' = [solvers EXCEPT ![id] = s]
    /\ calls' = [calls EXCEPT ![id] = [@ EXCEPT !.ok = 0, !.idle = 0]]
    /\ hist' = [op |-> "reset", id |-> id, ret |-> TRUE, iters |-> 0,
                pre |-> s, from |-> Phase(id)]
    /\ UNCHANGED <<args, fresh, app>>

Step1D(id) == solvers[id].kind = "1D" /\ Stepped(id, step1D(solvers[id]))

ResetSolver1D(id) == solvers[id].kind = "1D" /\ WasReset(id, Reset1D(solvers[id]))

Step2D(id) == solvers[id].kind = "2D" /\ Stepped(id, step2D(solvers[id]))

ResetSolver2D(id) == solvers[id].kind = "2D" /\ WasReset(id, Reset2D(solvers[id]))

Next ==
    \E id \in Ids :
        \/ Step1D(id)
        \/ ResetSolver1D(id)
        \/ Step2D(id)
        \/ ResetSolver2D(id)

Spec == Init /\ [][Next]_vars

\* ------------------------------------------------------------------------
\* solve_tridiagonal on the 3 x 3 system with sub-diagonal [p, -1, -1], main
\* diagonal [2, 2, 2], super-diagonal [-1, -1, q] and right-hand side
\* [k, k, k]; p and q fill the two entries that lie outside the matrix
\* ------------------------------------------------------------------------

\* the values p and q range over -ThomasPad .. ThomasPad
ThomasPad == 2

\* k ranges over 1 .. ThomasScale
ThomasScale == 4

\* the vectors handed to solve_tridiagonal, none solved yet
InitThomas ==
    /\ solvers = <<>> /\ args = <<>> /\ fresh = <<>> /\ calls = <<>>
    /\ app = NoApp
    /\ \E p, q \in (-ThomasPad)..ThomasPad, k \in 1..ThomasScale :
          hist = [op |-> "system", id |-> 0, k |-> k,
                  a |-> <<IntToD(p), DNeg(D1), DNeg(D1)>>,
                  b |-> <<D2, D2, D2>>,
                  c |-> <<DNeg(D1), DNeg(D1), IntToD(q)>>,
                  d |-> <<IntToD(k), IntToD(k), IntToD(k)>>,
                  x |-> <<>>]

\* the call solve_tridiagonal(a, b, c, d, x)
SolveSystem ==
    /\ hist.op = "system"
    /\ hist' = [hist EXCEPT !.op = "solved",
                            !.x = solve_tridiagonal(hist.a, hist.b, hist.c, hist.d)]
    /\ UNCHANGED <<solvers, args, fresh, calls, app>>

NextThomas == SolveSystem

SpecThomas == InitThomas /\ [][NextThomas]_vars

\* ------------------------------------------------------------------------
\* The constructors called with arguments outside the physical domain
\* ------------------------------------------------------------------------

\* constructor arguments with L < 0 or tmax <= 0, for which the constructors'
\* divisions L / (n - 1) and tmax / 1000.0 stay finite
UncheckedConfigs ==
    { <<"1D", IRON, -1, 1, 13, 80, 3>>,
      <<"1D", COPPER, 1, 0, 13, 80, 3>>,
      <<"2D", GLASS, 1, -1, 13, 80, 3>>,
      <<"2D", COPPER, -2, 5, 13, 80, 3>> }

InitUnchecked ==
    app = NoApp /\ \E cfg \in UncheckedConfigs : Constructed(cfg, Construct(cfg))

SpecUnchecked == InitUnchecked /\ [][Next]_vars

\* ------------------------------------------------------------------------
\* Several solvers side by side, each followed for its first steps
\* ------------------------------------------------------------------------

\* each solver makes at most MaxSteps steps between two resets
MaxSteps == 2

\* the four solvers of grid mode: one per material, same other arguments
GridConfigs(kind, L, tmax, u0, f, n) ==
    << <<kind, COPPER, L, tmax, u0, f, n>>, <<kind, IRON, L, tmax, u0, f, n>>,
       <<kind, GLASS, L, tmax, u0, f, n>>, <<kind, POLYSTYRENE, L, tmax, u0, f, n>> >>

\* the groups of solvers explored: the four bars of grid mode, two plates of
\* different materials, a bar next to a plate, two solvers of the same
\* material, a plate whose first relaxation makes all max_iter sweeps
\* without meeting tol, and two bars with r above 1, one of them on the
\* smallest grid
Fleets ==
    { GridConfigs("1D", 1, 5, 13, 80, 3),
      SubSeq(GridConfigs("2D", 1, 5, 13, 80, 4), 3, 4),
      << <<"1D", IRON, 1, 5, 13, 80, 3>>, <<"2D", GLASS, 1, 5, 13, 80, 4>> >>,
      << <<"1D", COPPER, 2, 16, -5, 80, 5>>, <<"1D", COPPER, 2, 16, -5, 80, 5>> >>,
      << <<"2D", COPPER, 1, 10000000, 13, 80, 4>> >>,
      << <<"1D", COPPER, 1, 10000000, 13, 80, 2>>,
         <<"1D", COPPER, 1, 10000000, 13, 80, 6>> >> }

\* the solvers constructed from the configurations fl, in order
RECURSIVE Constructs(_)
Constructs(fl) ==
    IF fl = <<>> THEN <<>> ELSE <<Construct(Head(fl))>> \o Constructs(Tail(fl))

\* the state in which the solvers ss have just been constructed from fl
Deployed(fl, ss) ==
    /\ solvers = ss
    /\ args = fl
    /\ fresh = ss
    /\ calls = SubSeq(<<[ok |-> 0, idle |-> 0, used |-> FALSE],
                        [ok |-> 0, idle |-> 0, used |-> FALSE],
                        [ok |-> 0, idle |-> 0, used |-> FALSE],
                        [ok |-> 0, idle |-> 0, used |-> FALSE]>>, 1, Len(fl))
    /\ hist = [op |-> "init", id |-> 1, ret |-> TRUE, iters |-> 0,
               pre |-> ss[1], from |-> "none"]

InitShort == app = NoApp /\ \E fl \in Fleets : Deployed(fl, Constructs(fl))

\* fault seeded for C18_ViewIsRowMajor: the view is filled column by column,
\* result[j][i] = u_[idx(j, i)]
get_temperature_2d_Transposed(s) ==
    [j \in 1..s.n_ |-> [i \in 1..s.n_ |-> s.u_[idx(j - 1, i - 1, s.n_) + 1]]]

\* std::vector<std::vector<double>> HeatEquationSolver2D::get_temperature_2d()
\* const: the rows result[0 .. n-1] of the value returned
get_temperature_2d(s) ==
    [j \in 1..s.n_ |-> [i \in 1..s.n_ |-> s.u_[idx(i - 1, j - 1, s.n_) + 1]]]

\* double HeatEquationSolver2D::get_temperature(int i, int j) const
get_temperature(s, i, j) == s.u_[idx(i, j, s.n_) + 1]

\* a call of get_temperature_2d() on solver id, returning view
Read2D(id) ==
    /\ solvers[id].kind = "2D"
    /\ hist' = [op |-> "get_temperature_2d", id |-> id, ret |-> TRUE, iters |-> 0,
                pre |-> solvers[id], from |-> "none",
                view |-> get_temperature_2d(solvers[id])]
    /\ UNCHANGED <<solvers, args, fresh, calls, app>>

ShortStep1D(id) == calls[id].ok < MaxSteps /\ Step1D(id)

ShortStep2D(id) == calls[id].ok < MaxSteps /\ Step2D(id)

NextShort ==
    \/ \E id \in Ids : ShortStep1D(id)
    \/ \E id \in Ids : ResetSolver1D(id)
    \/ \E id \in Ids : ShortStep2D(id)
    \/ \E id \in Ids : ResetSolver2D(id)
    \/ \E id \in Ids : Read2D(id)

SpecShort == InitShort /\ [][NextShort]_vars

\* ------------------------------------------------------------------------
\* step() followed statement by statement: the local buffer u_new of the
\* call in progress is kept in hist
\* ------------------------------------------------------------------------

\* the single solvers whose calls are followed, the last one with a
\* relaxation of max_iter sweeps
SweepConfigs ==
    { <<"1D", IRON, 1, 5, 13, 80, 3>>,
      <<"1D", POLYSTYRENE, 2, 16, 13, 80, 5>>,
      <<"2D", GLASS, 1, 5, 13, 80, 4>>,
      <<"2D", IRON, 2, 16, -5, 80, 4>>,
      <<"2D", COPPER, 1, 10000000, 13, 80, 4>> }

InitSweep == app = NoApp /\ \E cfg \in SweepConfigs : Constructed(cfg, Construct(cfg))

\* a call of step() has passed its guard and has not returned yet
InCall == hist.op = "stepping"

\* the call of step() on solver id has got as far as the declaration of
\* u_new, whose first value is u
Entered(id, u) ==
    /\ hist' = [op |-> "stepping", id |-> id, ret |-> FALSE, iters |-> 0,
                pre |-> solvers[id], from |-> "none", u_new |-> u, done |-> FALSE]
    /\ UNCHANGED <<solvers, args, fresh, calls, app>>

\* fault seeded for C16_StepIsAtomic: the sweeps work on the field u_ itself
Relaxing_InPlace(id, w, k) ==
    /\ hist' = [hist EXCEPT !.u_new = w.u, !.iters = k,
                            !.done = DLt(w.md, tol) \/ k = max_iter]
    /\ solvers' = [solvers EXCEPT ![id].u_ = w.u]
    /\ UNCHANGED <<args, fresh, calls, app>>

\* sweep number k of the call in progress has left w; done: the loop is left
Relaxing(id, w, k) ==
    /\ hist' = [hist EXCEPT !.u_new = w.u, !.iters = k,
                            !.done = DLt(w.md, tol) \/ k = max_iter]
    /\ UNCHANGED <<solvers, args, fresh, calls, app>>

\* HeatEquationSolver1D::step() up to `std::vector<double> u_new(n_);`, or
\* its return of false
BeginStep1D(id) ==
    /\ ~InCall /\ solvers[id].kind = "1D" /\ calls[id].ok < MaxSteps
    /\ IF DGe(solvers[id].t_, solvers[id].tmax_)
       THEN Stepped(id, step1D(solvers[id]))
       ELSE Entered(id, Fill(solvers[id].n_, D0))

\* solve_tridiagonal(a, b, c, d, u_new);
SolveStep1D(id) ==
    /\ InCall /\ hist.id = id /\ solvers[id].kind = "1D" /\ ~hist.done
    /\ hist' = [hist EXCEPT !.u_new = Advance1D(solvers[id]).u_, !.done = TRUE]
    /\ UNCHANGED <<solvers, args, fresh, calls, app>>

\* u_ = u_new; t_ += dt_; return true;
CommitStep1D(id) ==
    /\ InCall /\ hist.id = id /\ solvers[id].kind = "1D" /\ hist.done
    /\ Stepped(id, [ret |-> TRUE,
                    s |-> [solvers[id] EXCEPT
                             !.u_ = hist.u_new,
                             !.t_ = DAdd(solvers[id].t_, solvers[id].dt_)],
                    iters |-> 0])

\* HeatEquationSolver2D::step() up to `std::vector<double> u_new = u_;`, or
\* its return of false
BeginStep2D(id) ==
    /\ ~InCall /\ solvers[id].kind = "2D" /\ calls[id].ok < MaxSteps
    /\ IF DGe(solvers[id].t_, solvers[id].tmax_)
       THEN Stepped(id, step2D(solvers[id]))
       ELSE Entered(id, solvers[id].u_)

\* one iteration of the Gauss-Seidel loop, with its test of max_diff
SweepStep2D(id) ==
    /\ InCall /\ hist.id = id /\ solvers[id].kind = "2D" /\ ~hist.done
    /\ Relaxing(id, SweepOf(solvers[id], hist.u_new), hist.iters + 1)

\* u_ = u_new; t_ += dt_; return true;
CommitStep2D(id) ==
    /\ InCall /\ hist.id = id /\ solvers[id].kind = "2D" /\ hist.done
    /\ Stepped(id, Commit2D(solvers[id],
                            [u |-> hist.u_new, iters |-> hist.iters, done |-> TRUE]))

\* reset() called between two calls of step()
IdleReset1D(id) == ~InCall /\ ResetSolver1D(id)

IdleReset2D(id) == ~InCall /\ ResetSolver2D(id)

NextSweep ==
    \/ \E id \in Ids : BeginStep1D(id)
    \/ \E id \in Ids : SolveStep1D(id)
    \/ \E id \in Ids : CommitStep1D(id)
    \/ \E id \in Ids : BeginStep2D(id)
    \/ \E id \in Ids : SweepStep2D(id)
    \/ \E id \in Ids : CommitStep2D(id)
    \/ \E id \in Ids : IdleReset1D(id)
    \/ \E id \in Ids : IdleReset2D(id)

SpecSweep == InitSweep /\ [][NextSweep]_vars

\* ------------------------------------------------------------------------
\* The constructors over a range of domain lengths and grid sizes
\* ------------------------------------------------------------------------

\* L ranges over 1 .. MaxLength
MaxLength == 7

\* n ranges over 2 .. MaxGrid
MaxGrid == 7

\* the constructor arguments <<kind, material, L, tmax, u0, f, n>> are
\* chosen, no solver is constructed yet
InitGrid ==
    /\ solvers = <<>> /\ fresh = <<>> /\ calls = <<>>
    /\ app = NoApp
    /\ \E cfg \in { <<kind, COPPER, L, tmax, 13, 80, n>> :
                      kind \in {"1D", "2D"}, L \in 1..MaxLength,
                      tmax \in {1, 16}, n \in 2..MaxGrid } :
          /\ args = <<cfg>>
          /\ hist = [op |-> "args", id |-> 1, ret |-> TRUE, iters |-> 0,
                     pre |-> <<>>, from |-> "none"]

\* the solver s has been constructed from args[1]
Built(s) ==
    /\ solvers' = <<s>>
    /\ fresh' = <<s>>
    /\ calls' = <<[ok |-> 0, idle |-> 0, used |-> FALSE]>>
    /\ hist' = [op |-> "init", id |-> 1, ret |-> TRUE, iters |-> 0,
                pre |-> s, from |-> "none"]
    /\ UNCHANGED <<args, app>>

\* HeatEquationSolver1D::HeatEquationSolver1D(mat, L, tmax, u0, f, n)
BuildBar == hist.op = "args" /\ args[1][1] = "1D" /\ Built(Construct(args[1]))

\* HeatEquationSolver2D::HeatEquationSolver2D(mat, L, tmax, u0, f, n)
BuildPlate == hist.op = "args" /\ args[1][1] = "2D" /\ Built(Construct(args[1]))

NextGrid == BuildBar \/ BuildPlate

SpecGrid == InitGrid /\ [][NextGrid]_vars

\* ------------------------------------------------------------------------
\* The SDL application: an SDLApp object owns one solver, or four in grid
\* mode; SDLApp::run() handles the pending events, then runs one frame (the
\* passes of its loop, then the rendering), for as long as running_ holds
\* ------------------------------------------------------------------------

\* grid points of the bars and of the plates the application constructs
\* (n_, which start_simulation() sets to 1001 and 101: the application
\* hands n_ to the solvers and never reads it again)
Points1D == 3
Points2D == 3

\* frames that call step(), explored per run where the frames are capped
MaxFrames == 1

\* key presses explored where the keys are capped
MaxKeys == 1

\* where the keys are capped, UP and DOWN are pressed while no solver has
\* made more than MaxSpeedKeyStep steps of its run
MaxSpeedKeyStep == 0

\* the arguments of the solvers that start_simulation() (one solver, of
\* material mat) and start_grid_simulation() (four solvers) construct
AppConfigs(type, grid, mat, L, tmax, u0, f) ==
    IF grid
    THEN GridConfigs(IF type = "BAR_1D" THEN "1D" ELSE "2D", L, tmax, u0, f,
                     IF type = "BAR_1D" THEN Points1D ELSE Points2D)
    ELSE << <<IF type = "BAR_1D" THEN "1D" ELSE "2D", mat, L, tmax, u0, f,
              IF type = "BAR_1D" THEN Points1D ELSE Points2D>> >>

\* what start_simulation() and start_grid_simulation() assign besides the
\* solvers
start_simulation(a) == [a EXCEPT !.paused_ = FALSE, !.speed_ = 1]

\* the SDLApp object after either constructor. pc is where run() stands:
\* polling the events, in the loop of a frame (after s passes), or exited.
\* explore, keys and frames do the bookkeeping of the caps: explore says
\* which cap applies, keys counts the key presses, frames the frames of the
\* run that have called step()
SDLApp(type, grid, explore) ==
    start_simulation([pc |-> "poll", s |-> 0, sim_type_ |-> type, grid_mode_ |-> grid,
                      paused_ |-> FALSE, speed_ |-> 10, running_ |-> TRUE,
                      explore |-> explore, keys |-> 0, frames |-> 0])

\* the application c = <<type, grid mode, material, L, tmax, u0, f>> has
\* just been constructed, with the solvers of fl
Launched(c, fl, explore) ==
    /\ Deployed(fl, Constructs(fl))
    /\ app = SDLApp(c[1], c[2], explore)

\* the applications explored with capped frames
InitApp ==
    \E c \in { <<"BAR_1D", FALSE, IRON, 1, 5, 13, 80>>,
               <<"PLATE_2D", FALSE, GLASS, 1, 16, 13, 80>>,
               <<"BAR_1D", TRUE, COPPER, 1, 16, 13, 80>> } :
        Launched(c, AppConfigs(c[1], c[2], c[3], c[4], c[5], c[6], c[7]), "frames")

\* the applications explored with capped keys
InitRun ==
    \E c \in { <<"BAR_1D", FALSE, IRON, 1, 5, 13, 80>>,
               <<"BAR_1D", TRUE, COPPER, 1, 16, 13, 80>> } :
        Launched(c, AppConfigs(c[1], c[2], c[3], c[4], c[5], c[6], c[7]), "keys")

\* fault seeded for C24_ResetKeyRestarts: R resets the first solver only
ResetAll_FirstOnly(ss) ==
    <<IF Head(ss).kind = "1D" THEN Reset1D(Head(ss)) ELSE Reset2D(Head(ss))>>
    \o Tail(ss)

\* solver->reset() on every solver of ss
RECURSIVE ResetAll(_)
ResetAll(ss) ==
    IF ss = <<>> THEN <<>>
    ELSE <<IF Head(ss).kind = "1D" THEN Reset1D(Head(ss)) ELSE Reset2D(Head(ss))>>
         \o ResetAll(Tail(ss))

\* fault seeded for C30_SpeedWithinBounds: UP caps the speed at 50 for
\* plates as for bars
process_events_OneCap(a, ss, sym) ==
    CASE sym = "ESCAPE" -> [app |-> [a EXCEPT !.running_ = FALSE], solvers |-> ss]
      [] sym = "SPACE"  -> [app |-> [a EXCEPT !.paused_ = ~a.paused_], solvers |-> ss]
      [] sym = "r"      -> [app |-> [a EXCEPT !.paused_ = FALSE], solvers |-> ResetAll(ss)]
      [] sym = "UP"     ->
            [app |-> [a EXCEPT !.speed_ = IF a.speed_ + 5 < 50 THEN a.speed_ + 5 ELSE 50],
             solvers |-> ss]
      [] sym = "DOWN"   ->
            [app |-> [a EXCEPT !.speed_ = IF 1 < a.speed_ - 5 THEN a.speed_ - 5 ELSE 1],
             solvers |-> ss]

\* void SDLApp::process_events(event) for a key press sym: the application
\* and its solvers after the call
process_events(a, ss, sym) ==
    CASE sym = "ESCAPE" -> [app |-> [a EXCEPT !.running_ = FALSE], solvers |-> ss]
      [] sym = "SPACE"  -> [app |-> [a EXCEPT !.paused_ = ~a.paused_], solvers |-> ss]
      [] sym = "r"      -> [app |-> [a EXCEPT !.paused_ = FALSE], solvers |-> ResetAll(ss)]
      [] sym = "UP"     ->
            [app |-> [a EXCEPT !.speed_ =
                        IF a.speed_ + 5 < (IF a.sim_type_ = "BAR_1D" THEN 50 ELSE 20)
                        THEN a.speed_ + 5
                        ELSE IF a.sim_type_ = "BAR_1D" THEN 50 ELSE 20],
             solvers |-> ss]
      [] sym = "DOWN"   ->
            [app |-> [a EXCEPT !.speed_ = IF 1 < a.speed_ - 5 THEN a.speed_ - 5 ELSE 1],
             solvers |-> ss]

\* what the application is doing: running, paused by the SPACE key, or
\* paused with a step() that has returned false since the run began
Status ==
    IF ~app.paused_ THEN "running"
    ELSE IF \E id \in Ids : calls[id].idle > 0 THEN "completed"
    ELSE "paused"

\* the key press sym has been handled, with outcome r; hist keeps the key
\* in from, and in was what the application was doing
Handled(sym, r) ==
    /\ app' = [r.app EXCEPT !.keys = IF app.explore = "keys" THEN @ + 1 ELSE @,
                            !.frames = IF sym = "r" THEN 0 ELSE @]
    /\ solvers' = r.solvers
    /\ calls' = IF sym = "r"
                THEN [id \in DOMAIN calls |-> [calls[id] EXCEPT !.ok = 0, !.idle = 0]]
                ELSE calls
    /\ hist' = [op |-> "key", id |-> 1, ret |-> TRUE, iters |-> 0,
                pre |-> <<>>, from |-> sym, was |-> Status, rounds |-> 0]
    /\ UNCHANGED <<args, fresh>>

\* an SDL_KEYDOWN event for sym is polled and handed to process_events
KeyDown(sym) ==
    /\ app.pc = "poll"
    /\ app.explore = "keys" => app.keys < MaxKeys
    /\ (app.explore = "keys" /\ sym \in {"UP", "DOWN"}) =>
            \A id \in Ids : calls[id].ok <= MaxSpeedKeyStep
    /\ Handled(sym, process_events(app, solvers, sym))

\* an SDL_QUIT or window-close event is polled: run() clears running_, and
\* process_events ignores the event
WindowClosed ==
    /\ app.pc = "poll" /\ app.running_
    /\ app.explore = "keys" => app.keys < MaxKeys
    /\ app' = [app EXCEPT !.running_ = FALSE,
                          !.keys = IF app.explore = "keys" THEN @ + 1 ELSE @]
    /\ hist' = [op |-> "quit", id |-> 1, ret |-> TRUE, iters |-> 0,
                pre |-> <<>>, from |-> "none", was |-> Status, rounds |-> 0]
    /\ UNCHANGED <<solvers, args, fresh, calls>>

\* the solvers and the counts of their calls, w, after solver i has been
\* stepped with outcome r; all_done stays true while no call has returned
\* true
Called(w, i, r) ==
    [w EXCEPT !.solvers[i] = r.s,
              !.calls[i] = IF r.ret THEN [@ EXCEPT !.ok = @ + 1, !.used = TRUE]
                           ELSE [@ EXCEPT !.idle = @ + 1],
              !.all_done = @ /\ ~r.ret]

\* solver->step() of whichever kind the solver is
step(s) == IF s.kind = "1D" THEN step1D(s) ELSE step2D(s)

\* grid mode: `for (int i = 0; i < 4; i++)` from solver i on
RECURSIVE GridRound(_, _)
GridRound(w, i) ==
    IF i > Len(w.solvers) THEN w
    ELSE GridRound(Called(w, i, step(w.solvers[i])), i + 1)

\* one pass of the body of `for (int s = 0; s < speed_; s++)`
Round(a, w) ==
    IF a.grid_mode_
    THEN GridRound([w EXCEPT !.all_done = TRUE], 1)
    ELSE Called([w EXCEPT !.all_done = TRUE], 1, step(w.solvers[1]))

\* fault seeded for C29_AutoPause: the loop is left by break, but paused_
\* is not set
Passed_KeepsRunning(w) ==
    /\ app' = [app EXCEPT
                  !.s = IF w.all_done \/ app.s + 1 >= app.speed_ THEN 0 ELSE app.s + 1,
                  !.pc = IF w.all_done \/ app.s + 1 >= app.speed_ THEN "poll" ELSE "frame",
                  !.frames = IF app.explore = "frames" /\ app.pc = "poll"
                             THEN @ + 1 ELSE @]
    /\ solvers' = w.solvers
    /\ calls' = w.calls
    /\ hist' = [op |-> IF w.all_done \/ app.s + 1 >= app.speed_ THEN "frame" ELSE "pass",
                id |-> 1, ret |-> ~w.all_done, iters |-> 0, pre |-> <<>>,
                from |-> "none", was |-> "running", rounds |-> app.s + 1]
    /\ UNCHANGED <<args, fresh>>

\* one pass of the body of `for (int s = 0; s < speed_; s++)` has left the
\* solvers as w: `if (all_done) { paused_ = true; break; }`, and likewise
\* where the one solver's step() has returned false; after a break, or
\* after the last pass, the frame is rendered and the events are polled
\* again. hist counts the passes of the frame in rounds
Passed(w) ==
    /\ app' = [app EXCEPT
                  !.paused_ = w.all_done,
                  !.s = IF w.all_done \/ app.s + 1 >= app.speed_ THEN 0 ELSE app.s + 1,
                  !.pc = IF w.all_done \/ app.s + 1 >= app.speed_ THEN "poll" ELSE "frame",
                  !.frames = IF app.explore = "frames" /\ app.pc = "poll"
                             THEN @ + 1 ELSE @]
    /\ solvers' = w.solvers
    /\ calls' = w.calls
    /\ hist' = [op |-> IF w.all_done \/ app.s + 1 >= app.speed_ THEN "frame" ELSE "pass",
                id |-> 1, ret |-> ~w.all_done, iters |-> 0, pre |-> <<>>,
                from |-> "none", was |-> "running", rounds |-> app.s + 1]
    /\ UNCHANGED <<args, fresh>>

\* run() is about to make a pass of the loop of a frame: the events are
\* handled and running_ holds, or the frame is under way; the application is
\* not paused and s < speed_
CanPass ==
    /\ app.pc \in {"poll", "frame"}
    /\ app.running_ /\ ~app.paused_ /\ app.s < app.speed_
    /\ (app.pc = "poll" /\ app.explore = "frames") => app.frames < MaxFrames

\* fault seeded for C23_PausedFramesStepNothing: the test `if (!paused_)`
\* is missing, the loop runs in every frame
Pass_IgnoresPause ==
    /\ app.pc \in {"poll", "frame"}
    /\ app.running_ /\ app.s < app.speed_
    /\ (app.pc = "poll" /\ app.explore = "frames") => app.frames < MaxFrames
    /\ Passed(Round(app, [solvers |-> solvers, calls |-> calls, all_done |-> TRUE]))

\* a pass of the loop `for (int s = 0; s < speed_; s++)` of an unpaused
\* frame: the first pass of a frame, once the events are handled and
\* running_ holds, or a later one
Pass ==
    /\ CanPass
    /\ Passed(Round(app, [solvers |-> solvers, calls |-> calls, all_done |-> TRUE]))

\* a frame whose loop makes no pass: the application is paused (or speed_
\* is not positive); the frame is rendered
StillFrame ==
    /\ app.pc = "poll" /\ app.running_
    /\ app.paused_ \/ app.speed_ <= 0
    /\ hist' = [op |-> "frame", id |-> 1, ret |-> TRUE, iters |-> 0, pre |-> <<>>,
                from |-> "none", was |-> Status, rounds |-> 0]
    /\ UNCHANGED <<solvers, args, fresh, calls, app>>

\* run() leaves its loop and returns
Exit ==
    /\ app.pc = "poll" /\ ~app.running_
    /\ app' = [app EXCEPT !.pc = "exited"]
    /\ hist' = [op |-> "exit", id |-> 1, ret |-> TRUE, iters |-> 0,
                pre |-> <<>>, from |-> "none", was |-> Status, rounds |-> 0]
    /\ UNCHANGED <<solvers, args, fresh, calls>>

NextApp ==
    \/ \E sym \in {"ESCAPE", "SPACE", "r", "UP", "DOWN"} : KeyDown(sym)
    \/ WindowClosed
    \/ Pass
    \/ StillFrame
    \/ Exit

\* every key at any time, the frames of a run capped
SpecApp == InitApp /\ [][NextApp]_vars

\* whole runs, the keys capped
SpecRun == InitRun /\ [][NextApp]_vars

\* run() keeps iterating its loop while running_ holds, and leaves it
\* otherwise: weak fairness of Pass and of Exit. That of Pass is written
\* out, WF_vars(Pass) being []<>~ENABLED <<Pass>>_vars \/ []<><<Pass>>_vars,
\* with CanPass for the enabling condition; a step of Pass is told by what
\* it leaves in hist
FairRun ==
    /\ SpecRun
    /\ []<>~CanPass \/ []<><<CanPass /\ hist'.op \in {"pass", "frame"}>>_vars
    /\ WF_vars(Exit)

\* ------------------------------------------------------------------------
\* Properties
\* ------------------------------------------------------------------------

\* the Kelvin reference temperature u0 + 273.15 of solver id, from the
\* constructor argument u0
Reference(id) == DAdd(IntToD(args[id][5]), KELVIN_OFFSET)

\* solver id was constructed with the source amplitude f = 0
NoSource(id) == args[id][6] = 0

\* C1: counted from construction (or from a reset, which restores the
\* constructed state), exactly 1000 calls of step() return true before the
\* first call that returns false, and at that call t equals tmax, here even
\* up to a tolerance of 1e-9.
C1_StepCount ==
    (hist.op = "step" /\ ~hist.ret /\ calls[hist.id].idle = 1)
        => /\ calls[hist.id].ok = 1000
           /\ DLe(DAbs(DSub(solvers[hist.id].t_, solvers[hist.id].tmax_)),
                  Dbl(0, -82, 18014398, 136763029))

\* C2: a call of step() on a solver with t >= tmax returns false and leaves
\* the whole solver (t, temperature field, source field, parameters) as it
\* was; so do the calls that follow it, as long as reset() is not called.
C2_FinishedStepIsNoOp ==
    (hist.op = "step" /\ DGe(hist.pre.t_, hist.pre.tmax_))
        => ~hist.ret /\ solvers[hist.id] = hist.pre

\* a second call in a row of step() on a finished solver has returned
C2_SecondIdleCall ==
    /\ hist.op = "step"
    /\ DGe(hist.pre.t_, hist.pre.tmax_)
    /\ calls[hist.id].idle = 2

\* C3 as stated: step() returns true only if a following call of step() can
\* still advance the solver (t < tmax after the call), and false if the final
\* time is reached.
C3_TrueMeansMore ==
    (hist.op = "step" /\ hist.ret)
        => DLt(solvers[hist.id].t_, solvers[hist.id].tmax_)

\* C3: step() returns true exactly when t < tmax held at the call, and then
\* the call has advanced the time by dt; it returns false exactly when
\* t >= tmax held at the call.  The value tells whether this call advanced,
\* not whether a following one can.
C3_TrueMeansAdvanced ==
    hist.op = "step" =>
        /\ hist.ret <=> DLt(hist.pre.t_, hist.pre.tmax_)
        /\ hist.ret => solvers[hist.id].t_ = DAdd(hist.pre.t_, hist.pre.dt_)

\* a call of step() has returned true and left a solver that no following
\* call can advance
C3_LastAdvance ==
    /\ hist.op = "step" /\ hist.ret
    /\ DGe(solvers[hist.id].t_, solvers[hist.id].tmax_)

\* C4: in every reachable state t = k * dt, k being the number of calls of
\* step() that returned true since construction or the last reset.
C4_TimeIsMultiple ==
    \A id \in Ids :
        solvers[id].t_ = DMul(IntToD(calls[id].ok), solvers[id].dt_)

\* C5: in every reachable state 0 <= t <= tmax, here even up to a tolerance
\* of 1e-9 above tmax.
C5_TimeWithinHorizon ==
    \A id \in Ids :
        /\ DLe(D0, solvers[id].t_)
        /\ DLe(solvers[id].t_,
               DAdd(solvers[id].tmax_, Dbl(0, -82, 18014398, 136763029)))

\* C6: reset(), in whatever state it is called, leaves t = 0 and every entry
\* of the temperature field at u0 + 273.15, and the next call of step()
\* returns true and advances the time.
C6_ResetRestores ==
    hist.op = "reset" =>
        LET s == solvers[hist.id]
            r == IF s.kind = "1D" THEN step1D(s) ELSE step2D(s)
        IN  /\ s.t_ = D0
            /\ Len(s.u_) = (IF s.kind = "1D" THEN s.n_ ELSE s.n_ * s.n_)
            /\ \A k \in 1..Len(s.u_) : s.u_[k] = Reference(hist.id)
            /\ r.ret
            /\ DLt(s.t_, r.s.t_)

\* reset() has been called on a finished solver
C6_ResetWhenFinished == hist.op = "reset" /\ hist.from = "finished"

\* C7: after reset() the whole solver (t, temperature field, source field,
\* parameters) equals the solver freshly constructed from the same
\* arguments, whatever calls came before: steps, or reset() itself.
C7_ResetEqualsFresh ==
    hist.op = "reset" =>
        /\ solvers[hist.id] = fresh[hist.id]
        /\ solvers[hist.id] = Construct(args[hist.id])

\* reset() has been called twice in a row on a solver that had advanced
C7_ResetTwiceAfterSteps ==
    hist.op = "reset" /\ hist.from = "reset" /\ calls[hist.id].used

\* C8: in every reachable state of a 1D solver the last field entry u[n-1]
\* equals u0 + 273.15 exactly.
C8_Dirichlet1D ==
    \A id \in Ids :
        solvers[id].kind = "1D" =>
            /\ Len(solvers[id].u_) = solvers[id].n_
            /\ solvers[id].u_[solvers[id].n_] = Reference(id)

\* a step of a 1D solver with a source has moved the entry next to the last
C8_NeighbourHeated ==
    /\ hist.op = "step" /\ hist.ret
    /\ solvers[hist.id].kind = "1D"
    /\ ~NoSource(hist.id)
    /\ DLt(Reference(hist.id), solvers[hist.id].u_[solvers[hist.id].n_ - 1])

\* C9: in every reachable state of a 2D solver every field entry with
\* i = n-1 or j = n-1 equals u0 + 273.15 exactly, the corners (n-1, 0) and
\* (0, n-1) included.
C9_Dirichlet2D ==
    \A id \in Ids :
        solvers[id].kind = "2D" =>
            \A i, j \in 0..(solvers[id].n_ - 1) :
                (i = solvers[id].n_ - 1 \/ j = solvers[id].n_ - 1)
                    => solvers[id].u_[j * solvers[id].n_ + i + 1] = Reference(id)

\* a step of a 2D solver has moved the two entries next to the corners
\* (n-1, 0) and (0, n-1)
C9_CornerNeighboursHeated ==
    /\ hist.op = "step" /\ hist.ret
    /\ solvers[hist.id].kind = "2D"
    /\ LET s == solvers[hist.id]
       IN  /\ s.u_[idx(s.n_ - 2, 0, s.n_) + 1] # Reference(hist.id)
           /\ s.u_[idx(0, s.n_ - 2, s.n_) + 1] # Reference(hist.id)

\* C10 as stated: a successful step of a 1D solver without source, taken from
\* the uniform field at u0 + 273.15, leaves every field entry unchanged.
C10_EquilibriumExact ==
    \A id \in Ids :
        ( /\ hist.op = "step" /\ hist.id = id /\ hist.ret
          /\ solvers[id].kind = "1D" /\ NoSource(id)
          /\ \A k \in 1..Len(hist.pre.u_) : hist.pre.u_[k] = Reference(id) )
            => solvers[id].u_ = hist.pre.u_

\* C10: in every reachable state of a 1D solver without source every field
\* entry is within 1e-9 of u0 + 273.15, and the last entry equals it exactly.
C10_EquilibriumWithinRounding ==
    \A id \in Ids :
        (solvers[id].kind = "1D" /\ NoSource(id)) =>
            /\ \A k \in 1..Len(solvers[id].u_) :
                    DLe(DAbs(DSub(solvers[id].u_[k], Reference(id))),
                        Dbl(0, -82, 18014398, 136763029))
            /\ solvers[id].u_[solvers[id].n_] = Reference(id)

\* the first step of the solver n = 5, L = 1, tmax = 1, u0 = 0, f = 0 has
\* returned true
C10_FirstStepAtEquilibrium ==
    /\ hist.op = "step" /\ hist.ret
    /\ args[hist.id] = <<"1D", COPPER, 1, 1, 0, 0, 5>>
    /\ calls[hist.id].ok = 1
    /\ \A k \in 1..5 : hist.pre.u_[k] = Reference(hist.id)

\* C11 as stated: a successful step of a 2D solver without source, taken
\* from the uniform field at u0 + 273.15, leaves every one of the n * n field
\* entries unchanged.
C11_EquilibriumExact2D ==
    \A id \in Ids :
        ( /\ hist.op = "step" /\ hist.id = id /\ hist.ret
          /\ solvers[id].kind = "2D" /\ NoSource(id)
          /\ \A k \in 1..Len(hist.pre.u_) : hist.pre.u_[k] = Reference(id) )
            => solvers[id].u_ = hist.pre.u_

\* C11: in every reachable state of a 2D solver without source every field
\* entry is within 1e-9 of u0 + 273.15, and the entries with i = n-1 or
\* j = n-1 equal it exactly.
C11_EquilibriumWithinRounding2D ==
    \A id \in Ids :
        (solvers[id].kind = "2D" /\ NoSource(id)) =>
            \A i, j \in 0..(solvers[id].n_ - 1) :
                LET v == solvers[id].u_[j * solvers[id].n_ + i + 1]
                IN  /\ DLe(DAbs(DSub(v, Reference(id))),
                           Dbl(0, -82, 18014398, 136763029))
                    /\ (i = solvers[id].n_ - 1 \/ j = solvers[id].n_ - 1)
                            => v = Reference(id)

\* the last step of the run of the 2D solver n = 4, L = 1, tmax = 16,
\* u0 = 13, f = 0 has returned true, and the interior entry (1, 1) and the
\* Neumann-edge entries (0, 1) and (1, 0) have left the reference value
C11_EquilibriumRunDone ==
    /\ hist.op = "step" /\ hist.ret
    /\ args[hist.id] = <<"2D", POLYSTYRENE, 1, 16, 13, 0, 4>>
    /\ DGe(solvers[hist.id].t_, solvers[hist.id].tmax_)
    /\ solvers[hist.id].u_[idx(1, 1, 4) + 1] # Reference(hist.id)
    /\ solvers[hist.id].u_[idx(0, 1, 4) + 1] # Reference(hist.id)
    /\ solvers[hist.id].u_[idx(1, 0, 4) + 1] # Reference(hist.id)

\* C12 as stated: for a = [_, -1, -1], b = [2, 2, 2], c = [-1, -1, _] and
\* d = [1, 1, 1] solve_tridiagonal returns x = [1, 1, 1] (within 1e-9).
C12_ThomasOnes ==
    (hist.op = "solved" /\ hist.k = 1) =>
        \A i \in 1..3 :
            DLe(DAbs(DSub(hist.x[i], D1)), Dbl(0, -82, 18014398, 136763029))

\* C12: for a = [_, -1, -1], b = [2, 2, 2], c = [-1, -1, _] and
\* d = [k, k, k] solve_tridiagonal returns x = [1.5 k, 2 k, 1.5 k] within
\* 1e-9, whatever the two entries outside the matrix hold; for d = [1, 1, 1]
\* that is x = [1.5, 2, 1.5].
C12_ThomasExample ==
    hist.op = "solved" =>
        /\ Len(hist.x) = 3
        /\ \A i \in 1..3 :
              DLe(DAbs(DSub(hist.x[i],
                            IF i = 2 THEN IntToD(2 * hist.k)
                            ELSE DDiv(IntToD(3 * hist.k), D2))),
                  Dbl(0, -82, 18014398, 136763029))

\* the system with d = [1, 1, 1] has been solved, with non-zero values in the
\* two entries outside the matrix
C12_ThomasSolved ==
    /\ hist.op = "solved" /\ hist.k = 1
    /\ ~IsZero(hist.a[1]) /\ ~IsZero(hist.c[3])

\* C13 as stated: no solver constructed with n < 2, L <= 0 or tmax <= 0
\* (rho * c = 0 does not occur among the materials) is ever available for
\* step(): every solver object has n >= 2, L > 0 and tmax > 0.
C13_OnlyValidSolvers ==
    \A id \in Ids :
        /\ solvers[id].n_ >= 2
        /\ DLt(D0, solvers[id].L_)
        /\ DLt(D0, solvers[id].tmax_)

\* C14: a step() of a 2D solver called with t < tmax whose relaxation makes
\* all max_iter sweeps without max_diff ever falling below tol returns true,
\* commits the relaxed buffer as the field and adds dt to t, leaving every
\* other member alone.
C14_ExhaustedStepCommits ==
    \A id \in Ids :
        ( /\ hist.op = "step" /\ hist.id = id
          /\ solvers[id].kind = "2D"
          /\ DLt(hist.pre.t_, hist.pre.tmax_) ) =>
            LET st == Relax(hist.pre)
            IN  ~st.done =>
                    /\ st.iters = max_iter
                    /\ hist.ret
                    /\ hist.iters = max_iter
                    /\ solvers[id] = [hist.pre EXCEPT
                                        !.u_ = st.u,
                                        !.t_ = DAdd(hist.pre.t_, hist.pre.dt_)]

\* a step of the plate n = 4, tmax = 10000000 has returned after max_iter
\* sweeps, the last of which still changed a point by tol or more
C14_ExhaustedStepTaken ==
    /\ hist.op = "step" /\ hist.ret /\ hist.iters = max_iter
    /\ solvers[hist.id].kind = "2D"
    /\ ~Relax(hist.pre).done
    /\ solvers[hist.id].u_ # hist.pre.u_

\* C15: the relaxation of a step() of a 2D solver that returned true made
\* between 1 and max_iter sweeps, all of them full; every sweep but the last
\* changed some point by tol or more, the last one changed every point by
\* less than tol unless it was sweep number max_iter, and the field committed
\* is the buffer as the last sweep left it.
C15_SweepsUntilConverged ==
    \A id \in Ids :
        ( /\ hist.op = "step" /\ hist.id = id /\ hist.ret
          /\ solvers[id].kind = "2D" ) =>
            /\ hist.iters \in 1..max_iter
            /\ LET trace == SweepTrace(hist.pre, hist.pre.u_, hist.iters)
               IN  /\ \A k \in 1..(hist.iters - 1) : ~DLt(trace[k].md, tol)
                   /\ hist.iters < max_iter => DLt(trace[hist.iters].md, tol)
                   /\ solvers[id].u_ = trace[hist.iters].u

\* a relaxation has stopped after more than one and fewer than max_iter
\* sweeps, and the sweeps after the first have changed the buffer
C15_StoppedEarly ==
    /\ hist.op = "step" /\ hist.ret
    /\ solvers[hist.id].kind = "2D"
    /\ hist.iters \in 2..(max_iter - 1)
    /\ SweepOf(hist.pre, hist.pre.u_).u # solvers[hist.id].u_

\* C16: while a call of step() is computing, the solver is as it was when
\* the call began; and when the call has returned true the solver is what the
\* whole step makes of the solver the call began with, its field and its time
\* both new. Between calls the field and t are therefore the complete
\* pre-step pair or the complete post-step pair.
C16_StepIsAtomic ==
    \A id \in Ids :
        /\ (InCall /\ hist.id = id) => solvers[id] = hist.pre
        /\ (hist.op = "step" /\ hist.id = id /\ hist.ret) =>
              /\ solvers[id] = IF solvers[id].kind = "1D" THEN step1D(hist.pre).s
                               ELSE step2D(hist.pre).s
              /\ solvers[id].u_ # hist.pre.u_
              /\ solvers[id].t_ # hist.pre.t_

\* a call of step() on a plate is between two sweeps: its buffer is partly
\* relaxed, differs from the field, and the loop goes on
C16_PartlyRelaxed ==
    /\ InCall /\ solvers[hist.id].kind = "2D"
    /\ hist.iters >= 1 /\ ~hist.done
    /\ hist.u_new # solvers[hist.id].u_

\* solver s after k more calls of step(), with no other solver around
RECURSIVE AfterSteps(_, _)
AfterSteps(s, k) ==
    IF k = 0 THEN s
    ELSE AfterSteps(IF s.kind = "1D" THEN step1D(s).s ELSE step2D(s).s, k - 1)

\* C17: whatever calls of step() and reset() the other solvers have had, each
\* solver (its time, its temperature field, its source field and the rest) is
\* what its constructor's result becomes after the steps it has itself
\* made since its construction or its last reset; so a call on one solver
\* changes nothing of another.
C17_RunsAsAlone ==
    \A id \in Ids : solvers[id] = AfterSteps(fresh[id], calls[id].ok)

\* in the grid of four bars the first and the fourth solver have made two
\* steps, the second one step, and the third was reset after stepping
C17_GridOutOfStep ==
    /\ Len(solvers) = 4
    /\ calls[1].ok = 2 /\ calls[2].ok = 1 /\ calls[4].ok = 2
    /\ calls[3].ok = 0 /\ calls[3].used
    /\ hist.op = "step" /\ hist.id = 4
    /\ \A id \in 1..3 : solvers[id].t_ # solvers[4].t_ \/ calls[id].ok = 2

\* C18: the value returned by get_temperature_2d() has n rows of n values,
\* its entry [j][i] is the field entry number j * n + i and equals
\* get_temperature(i, j), for all 0 <= i, j < n; and the call leaves the
\* solver as it found it.
C18_ViewIsRowMajor ==
    \A id \in Ids :
        (hist.op = "get_temperature_2d" /\ hist.id = id) =>
            /\ Len(hist.view) = solvers[id].n_
            /\ \A j \in 0..(solvers[id].n_ - 1) :
                  /\ Len(hist.view[j + 1]) = solvers[id].n_
                  /\ \A i \in 0..(solvers[id].n_ - 1) :
                        /\ hist.view[j + 1][i + 1] =
                              solvers[id].u_[j * solvers[id].n_ + i + 1]
                        /\ hist.view[j + 1][i + 1] = get_temperature(solvers[id], i, j)
            /\ solvers[id] = hist.pre

\* get_temperature_2d() has returned the field of a plate that has made one
\* step, a field that is not symmetric: entry [2][0] differs from [0][2]
C18_ViewOfUnevenField ==
    /\ hist.op = "get_temperature_2d"
    /\ calls[hist.id].ok = 1
    /\ hist.view[3][1] # hist.view[1][3]

\* the maximum over the temperature field u
FieldMax(u) ==
    CHOOSE v \in {u[k] : k \in DOMAIN u} : \A k \in DOMAIN u : DLe(u[k], v)

\* C19: for a solver constructed with f > 0, the maximum over the field
\* after a step() that returned true is at least the maximum over the field
\* before it, at every step of every run from a fresh or a reset solver.
C19_MaximumNeverFalls ==
    \A id \in Ids :
        (hist.op = "step" /\ hist.id = id /\ hist.ret /\ args[id][6] > 0) =>
            DLe(FieldMax(hist.pre.u_), FieldMax(solvers[id].u_))

\* the 1000th step of a run of a plate with f > 0 has raised the maximum
\* over the field
C19_StillHeatingAtTheEnd ==
    /\ hist.op = "step" /\ hist.ret
    /\ solvers[hist.id].kind = "2D" /\ args[hist.id][6] > 0
    /\ calls[hist.id].ok = 1000
    /\ DLt(FieldMax(hist.pre.u_), FieldMax(solvers[hist.id].u_))

\* C20: in every state reached by calls of step() and reset() the source
\* field of each solver is entry for entry the one its constructor left, and
\* its length is n for a bar and n * n for a plate, the length of the
\* temperature field.
C20_SourceIsStatic ==
    \A id \in Ids :
        /\ solvers[id].F_ = fresh[id].F_
        /\ Len(solvers[id].F_) =
              IF solvers[id].kind = "1D" THEN args[id][7] ELSE args[id][7] * args[id][7]
        /\ Len(solvers[id].F_) = Len(solvers[id].u_)

\* a plate with a non-zero source has run to its end and has then been reset
C20_ResetAfterWholeRun ==
    /\ hist.op = "reset" /\ hist.from = "finished"
    /\ solvers[hist.id].kind = "2D"
    /\ \E k \in DOMAIN solvers[hist.id].F_ : ~IsZero(solvers[hist.id].F_[k])

\* C21 as stated: the source field of a bar has, at every grid index i,
\* the value 100 * tmax * f^2 if L/10 <= i * L/(n-1) <= 2L/10, the value
\* 0.75 * 100 * tmax * f^2 if 5L/10 <= i * L/(n-1) <= 6L/10, and 0 otherwise,
\* a grid point exactly on a band edge carrying the source.
C21_SourceBands1D ==
    \A id \in Ids :
        solvers[id].kind = "1D" =>
            \A i \in 0..(args[id][7] - 1) :
                solvers[id].F_[i + 1] =
                    IF args[id][7] - 1 <= 10 * i /\ 10 * i <= 2 * (args[id][7] - 1)
                    THEN IntToD(100 * args[id][4] * args[id][6] * args[id][6])
                    ELSE IF 5 * (args[id][7] - 1) <= 10 * i
                            /\ 10 * i <= 6 * (args[id][7] - 1)
                    THEN IntToD(75 * args[id][4] * args[id][6] * args[id][6])
                    ELSE D0

\* the index i lies in one of the two bands of an axis of the plate:
\* L/6 <= i * L/(n-1) <= 2L/6 or 4L/6 <= i * L/(n-1) <= 5L/6
OnBand2D(i, n) ==
    \/ n - 1 <= 6 * i /\ 6 * i <= 2 * (n - 1)
    \/ 4 * (n - 1) <= 6 * i /\ 6 * i <= 5 * (n - 1)

\* C22 as stated: the source field of a plate has, at every grid point
\* (i, j), the value 100 * tmax * f^2 if both coordinates lie, edges
\* included, in [L/6, 2L/6] or [4L/6, 5L/6], and 0 otherwise.
C22_SourceSquares2D ==
    \A id \in Ids :
        solvers[id].kind = "2D" =>
            \A i, j \in 0..(args[id][7] - 1) :
                solvers[id].F_[j * args[id][7] + i + 1] =
                    IF OnBand2D(i, args[id][7]) /\ OnBand2D(j, args[id][7])
                    THEN IntToD(100 * args[id][4] * args[id][6] * args[id][6])
                    ELSE D0

\* r = alpha * dt / dx^2 of solver s
Fourier(s) == DDiv(DMul(alpha(s.mat_), s.dt_), DMul(s.dx_, s.dx_))

\* coef = dt / (rho * c) of solver s
SourceCoef(s) == DDiv(s.dt_, DMul(s.mat_.rho, s.mat_.c))

At(w, i, j, n) == w[j * n + i + 1]

\* every point (i, j) off the Dirichlet edges holds the value the point
\* update gives it, for the buffer old before the sweep and new after it
SweepMatches(s, old, new, r, coef) ==
    \A i, j \in 0..(s.n_ - 2) :
        At(new, i, j, s.n_) =
            DDiv(DAdd(DAdd(At(s.u_, i, j, s.n_), DMul(coef, At(s.F_, i, j, s.n_))),
                      DMul(r, DAdd(DAdd(DAdd(
                          IF i > 0 THEN At(new, i - 1, j, s.n_) ELSE At(old, 1, j, s.n_),
                          At(old, i + 1, j, s.n_)),
                          IF j > 0 THEN At(new, i, j - 1, s.n_) ELSE At(old, i, 1, s.n_)),
                          At(old, i, j + 1, s.n_)))),
                 DAdd(D1, DMul(D4, r)))

\* C26: a sweep of a step() of a plate takes the working buffer from old to
\* new so that every point (i, j) off the Dirichlet edges holds
\* [u(i,j) + coef F(i,j) + r (left + right + down + up)] / (1 + 4r), with u
\* the committed field, left = new(i-1, j) or, at i = 0, old(1, j),
\* right = old(i+1, j), down = new(i, j-1) or, at j = 0, old(i, 1), and
\* up = old(i, j+1).
C26_SweepUpdate ==
    [][ \A id \in Ids :
          ( /\ hist.op = "stepping" /\ hist'.op = "stepping" /\ hist.id = id
            /\ solvers[id].kind = "2D" ) =>
                SweepMatches(solvers[id], hist.u_new, hist'.u_new,
                             Fourier(solvers[id]), SourceCoef(solvers[id])) ]_vars

\* the second sweep of a step of a plate is done and the loop goes on: the
\* buffer differs from the committed field at the corner (0, 0) and at the
\* interior point (1, 1)
C26_SecondSweepDone ==
    /\ InCall /\ solvers[hist.id].kind = "2D"
    /\ hist.iters = 2 /\ ~hist.done
    /\ hist.u_new[1] # solvers[hist.id].u_[1]
    /\ hist.u_new[solvers[hist.id].n_ + 2] # solvers[hist.id].u_[solvers[hist.id].n_ + 2]

\* <<c_prime, d_prime>> as the forward elimination leaves them for sys
Eliminated(sys) ==
    Forward(sys.a, sys.b, sys.c, sys.d,
            <<DDiv(sys.c[1], sys.b[1])>>, <<DDiv(sys.d[1], sys.b[1])>>, 1)

\* the divisors of solve_tridiagonal for sys are at least 1, and its vectors
\* c_prime, d_prime and x have the n entries 0 .. n-1; fw = <<c_prime,
\* d_prime>>
DivisorsOk(sys, fw, x, n) ==
    /\ DLe(D1, sys.b[1])
    /\ \A i \in 1..(n - 1) :
          DLe(D1, DSub(sys.b[i + 1], DMul(sys.a[i + 1], fw[1][i])))
    /\ DOMAIN sys.a = 1..n /\ DOMAIN sys.b = 1..n
    /\ DOMAIN sys.c = 1..n /\ DOMAIN sys.d = 1..n
    /\ DOMAIN fw[1] = 1..n /\ DOMAIN fw[2] = 1..n /\ DOMAIN x = 1..n

\* C27: in every step() of a bar with n >= 2 that reaches the solve, the
\* divisors b[0] and b[i] - a[i] * c_prime[i-1], 1 <= i <= n-1, of
\* solve_tridiagonal are at least 1, and the vectors read and written have
\* exactly the indices 0 .. n-1.
C27_DivisorsAtLeastOne ==
    \A id \in Ids :
        ( /\ hist.op = "step" /\ hist.id = id /\ hist.ret
          /\ solvers[id].kind = "1D" ) =>
            DivisorsOk(System1D(hist.pre, hist.pre.n_, Fourier(hist.pre),
                                SourceCoef(hist.pre)),
                       Eliminated(System1D(hist.pre, hist.pre.n_, Fourier(hist.pre),
                                           SourceCoef(hist.pre))),
                       solvers[id].u_, hist.pre.n_)

\* the bar on the smallest grid, n = 2, with r above 1, has made a step, and
\* so has the bar with n = 6 next to it
C27_SmallestGridStepped ==
    /\ Len(solvers) = 2
    /\ solvers[1].n_ = 2 /\ solvers[2].n_ = 6
    /\ DLt(D1, Fourier(solvers[1]))
    /\ calls[1].ok >= 1 /\ calls[2].ok >= 1
    /\ hist.op = "step" /\ hist.ret

C30_SpeedWithinBounds ==
    /\ 1 <= app.speed_
    /\ app.speed_ <= (IF app.sim_type_ = "BAR_1D" THEN 50 ELSE 20)
    /\ (hist.op = "frame" /\ hist.was = "running") =>
            /\ 1 <= hist.rounds
            /\ hist.rounds <= (IF app.sim_type_ = "BAR_1D" THEN 50 ELSE 20)

\* a frame of the 1D application has ended after 50 passes, at speed 50
C30_FrameAtTopSpeed ==
    /\ app.sim_type_ = "BAR_1D" /\ app.speed_ = 50
    /\ hist.op = "frame" /\ hist.was = "running" /\ hist.rounds = 50

\* C23: a SPACE key press inverts paused_; a frame that begins paused calls
\* no step(), so it leaves every solver (time and field) and the counts of
\* the calls as they were; and from one state to the next, while the
\* application stays paused, no solver changes: only SPACE and R end that.
C23_PausedFramesStepNothing ==
    [][ /\ (hist'.op = "key" /\ hist'.from = "SPACE") => app'.paused_ = ~app.paused_
        /\ (app.paused_ /\ hist'.op = "frame") =>
                solvers' = solvers /\ calls' = calls /\ hist'.rounds = 0
        /\ (app.paused_ /\ app'.paused_) => solvers' = solvers ]_vars

\* a frame of the paused grid of four bars has ended, each bar in the
\* middle of its run
C23_PausedMidRun ==
    /\ hist.op = "frame" /\ hist.was = "paused" /\ hist.rounds = 0
    /\ app.paused_ /\ app.grid_mode_
    /\ \A id \in Ids : calls[id].ok > 0 /\ solvers[id] # fresh[id]

C29_AutoPause ==
    /\ [][ (~app.paused_ /\ hist'.op \in {"pass", "frame"}) =>
              /\ app'.paused_ = \A id \in Ids : DGe(solvers[id].t_, solvers[id].tmax_)
              /\ app'.paused_ => (hist'.op = "frame" /\ app'.pc = "poll" /\ solvers' = solvers)
              /\ \A id \in Ids : solvers'[id].t_ = solvers'[1].t_ ]_vars
    /\ (app.running_ /\ ~app.paused_) ~> (app.paused_ \/ ~app.running_)

\* in grid mode a frame has paused the application for the second time in
\* the run: SPACE was pressed after the completion of the four runs
C29_PausedAgainAfterSpace ==
    /\ hist.op = "frame" /\ hist.was = "running" /\ app.paused_
    /\ app.grid_mode_
    /\ \A id \in Ids : calls[id].idle = 2 /\ calls[id].ok >= 1000

====
